---- MODULE Spec2Model ----
(***************************************************************************)
(* Batch color renderer (src/__init__.py): the BatchSettings aggregate and *)
(* its add/remove operators, the eligibility filter and cartesian product  *)
(* of get_color_combinations, and the render loop of                       *)
(* BATCH_COLORS_OT_render_batch (invoke, confirmation, execute).           *)
(***************************************************************************)
EXTENDS Naturals, Sequences, FiniteSets, TLC

\* ------------------------------------------------------------------ bounds

\* At most this many MaterialItems in settings.materials.
MaxMats == 2
\* At most this many ColorItems over all MaterialItems together.
MaxItems == 4

\* ------------------------------------------------------ host data (inputs)

\* ColorItem.color: the default of a new ColorItem, and the other value the
\* colour widget can set.
White == "white"
Colors == {"white", "red"}
\* The value a node output holds before any batch wrote it.
NodeInitial == "gray"

\* bpy.data.materials, in the host's order: name -> material.  "A" has two RGB
\* nodes behind a non-RGB node, "B" one RGB node, "N" uses nodes but has no RGB
\* node, "U" has an RGB node but does not use nodes.
RegistryOrder == <<"A", "B", "N", "U">>
data_materials ==
    [n \in {"A", "B", "N", "U"} |->
        CASE n = "A" -> [use_nodes |-> TRUE,  nodes |-> <<"OUTPUT", "RGB", "RGB">>]
          [] n = "B" -> [use_nodes |-> TRUE,  nodes |-> <<"RGB", "OUTPUT">>]
          [] n = "N" -> [use_nodes |-> TRUE,  nodes |-> <<"OUTPUT">>]
          [] n = "U" -> [use_nodes |-> FALSE, nodes |-> <<"RGB">>]]
\* A name that is in no registry entry (a material deleted or renamed since).
StaleName == "X"
\* The values MaterialItem.mat_name can hold.
MatNames == DOMAIN data_materials \cup {StaleName}
\* Every node of every registered material, as <<material name, position>>.
AllNodes == {<<n, k>> : n \in DOMAIN data_materials, k \in 1..3} \cap
            UNION {{<<n, k>> : k \in 1..Len(data_materials[n].nodes)} : n \in DOMAIN data_materials}

\* scene.render.filepath before the batch.
InitialPath == <<"o", "u", "t">>

VARIABLES
    settings,            \* context.scene.batch_settings: [materials, mat_index]
    pc,                  \* where the render operator is
    prompt_count,        \* the image count in invoke's confirmation message
    color_combinations,  \* execute's local: the list of combinations
    materials,           \* execute's local: the eligible materials (by name)
    count,               \* execute's local
    base_path,           \* execute's local
    filepath,            \* bpy.context.scene.render.filepath
    default_value,       \* node -> rgb_node.outputs[0].default_value
    render_calls,        \* history: one record per bpy.ops.render.render call
    node_writes,         \* history: the nodes whose output was ever assigned
    filepath_writes,     \* history: the number of assignments to filepath
    reports              \* the WARNING reports of the render operator, in order

vars == <<settings, pc, prompt_count, color_combinations, materials, count,
          base_path, filepath, default_value, render_calls, node_writes,
          filepath_writes, reports>>

renderVars == <<pc, prompt_count, color_combinations, materials, count,
                base_path, filepath, default_value, render_calls, node_writes,
                filepath_writes, reports>>

\* ----------------------------------------------------------- collections

\* bpy_prop_collection.remove(index): drops the item at a 0-based index, and
\* does nothing when the index is out of range.
CollectionRemove(seq, index) ==
    IF index < Len(seq)
    THEN SubSeq(seq, 1, index) \o SubSeq(seq, index + 2, Len(seq))
    ELSE seq

\* Mutant of DecrementToZero: the index is left as it was.
KeepIndex(i) == i

\* max(0, i - 1) on naturals.
DecrementToZero(i) == IF i > 0 THEN i - 1 ELSE 0

\* MaterialItem as materials.add() creates it: the enum's first item, no
\* colours, color_index 0.
NewMaterialItem == [mat_name |-> RegistryOrder[1], colors |-> <<>>, color_index |-> 0]

\* ColorItem as colors.add() creates it.
NewColorItem == White

RECURSIVE SumLens(_)
SumLens(items) ==
    IF items = <<>> THEN 0 ELSE Len(Head(items).colors) + SumLens(Tail(items))
\* The number of ColorItems in the whole settings.
TotalItems == SumLens(settings.materials)

\* The MaterialItem settings.materials[settings.mat_index].
Selected == settings.materials[settings.mat_index + 1]

\* ------------------------------------------------------------- operators

\* BATCH_COLORS_OT_add_material.execute
AddMaterial ==
    /\ pc = "idle"
    /\ Len(settings.materials) < MaxMats
    /\ TotalItems < MaxItems
    /\ LET added == Append(settings.materials, NewMaterialItem)
           index == Len(added) - 1
           withColor == [added EXCEPT ![index + 1].colors = Append(@, NewColorItem)]
       IN settings' = [materials |-> [withColor EXCEPT ![index + 1].color_index = 0],
                       mat_index |-> index]
    /\ UNCHANGED renderVars

\* BATCH_COLORS_OT_remove_material.execute
RemoveMaterial ==
    /\ pc = "idle"
    /\ settings' = [materials |-> CollectionRemove(settings.materials, settings.mat_index),
                    mat_index |-> DecrementToZero(settings.mat_index)]
    /\ UNCHANGED renderVars

\* BATCH_COLORS_OT_add_color.execute; indexing an empty collection raises and
\* the operator changes nothing.
AddColor ==
    /\ pc = "idle"
    /\ settings.mat_index < Len(settings.materials)
    /\ TotalItems < MaxItems
    /\ LET i == settings.mat_index + 1
           grown == Append(settings.materials[i].colors, NewColorItem)
       IN settings' = [settings EXCEPT
                          !.materials[i].colors = grown,
                          !.materials[i].color_index = Len(grown) - 1]
    /\ UNCHANGED renderVars

\* Mutant of RemoveColorPoll: the test of len(colors) > 1 is missing.
RemoveColorPollNonEmpty ==
    /\ settings.mat_index < Len(settings.materials)
    /\ Selected.colors # <<>>

\* BATCH_COLORS_OT_remove_color.poll
RemoveColorPoll ==
    /\ settings.mat_index < Len(settings.materials)
    /\ Selected.colors # <<>>
    /\ Len(Selected.colors) > 1

\* BATCH_COLORS_OT_remove_color.execute, run only when poll allows it.
RemoveColor ==
    /\ pc = "idle"
    /\ RemoveColorPoll
    /\ LET i == settings.mat_index + 1
           item == settings.materials[i]
       IN settings' = [settings EXCEPT
                          !.materials[i].colors = CollectionRemove(item.colors, item.color_index),
                          !.materials[i].color_index = DecrementToZero(item.color_index)]
    /\ UNCHANGED renderVars

\* The material list row's mat_name widget (draw_item of the material list).
SetMatName ==
    /\ pc = "idle"
    /\ \E i \in 1..Len(settings.materials), n \in MatNames :
          settings' = [settings EXCEPT !.materials[i].mat_name = n]
    /\ UNCHANGED renderVars

\* The colour list row's color widget (draw_item of the colour list), shown
\* for the selected material.
SetColor ==
    /\ pc = "idle"
    /\ settings.mat_index < Len(settings.materials)
    /\ \E k \in 1..Len(Selected.colors), c \in Colors :
          settings' = [settings EXCEPT !.materials[settings.mat_index + 1].colors[k] = c]
    /\ UNCHANGED renderVars

\* The material list widget (template_list on settings, "mat_index").
SelectMaterial ==
    /\ pc = "idle"
    /\ \E i \in 0..(Len(settings.materials) - 1) :
          settings' = [settings EXCEPT !.mat_index = i]
    /\ UNCHANGED renderVars

\* The colour list widget (template_list on the selected item, "color_index").
SelectColor ==
    /\ pc = "idle"
    /\ settings.mat_index < Len(settings.materials)
    /\ \E k \in 0..(Len(Selected.colors) - 1) :
          settings' = [settings EXCEPT !.materials[settings.mat_index + 1].color_index = k]
    /\ UNCHANGED renderVars

\* ------------------------------------------------ get_color_combinations

\* [n for n in mat.node_tree.nodes if n.type == 'RGB'], as node positions.
RECURSIVE RGBNodesFrom(_, _)
RGBNodesFrom(nodes, k) ==
    IF k > Len(nodes) THEN <<>>
    ELSE IF nodes[k] = "RGB" THEN <<k>> \o RGBNodesFrom(nodes, k + 1)
         ELSE RGBNodesFrom(nodes, k + 1)
RGBNodes(mat) == RGBNodesFrom(mat.nodes, 1)

\* Mutant of ReadableMaterial: use_nodes is not tested.
ReadableMaterialAnyGraph(mat_name) == mat_name \in DOMAIN data_materials

\* `mat and mat.use_nodes` for mat = bpy.data.materials.get(mat_name).
ReadableMaterial(mat_name) ==
    /\ mat_name \in DOMAIN data_materials
    /\ data_materials[mat_name].use_nodes

\* The loop over settings.materials: the eligible materials, their colour
\* lists and the warnings, accumulated in list order.
RECURSIVE FilterLoop(_, _, _, _)
FilterLoop(items, mats, color_lists, warnings) ==
    IF items = <<>>
    THEN [materials |-> mats, color_lists |-> color_lists, warnings |-> warnings]
    ELSE LET mat_item == Head(items)
         IN IF ReadableMaterial(mat_item.mat_name)
            THEN IF RGBNodes(data_materials[mat_item.mat_name]) = <<>>
                 THEN FilterLoop(Tail(items), mats, color_lists,
                                 Append(warnings, <<"No RGB node", mat_item.mat_name>>))
                 ELSE FilterLoop(Tail(items), Append(mats, mat_item.mat_name),
                                 Append(color_lists, mat_item.colors), warnings)
            ELSE FilterLoop(Tail(items), mats, color_lists,
                            Append(warnings, <<"Error while reading", mat_item.mat_name>>))

\* [x + [y] for y in pool], for one partial combination x.
RECURSIVE ExtendOne(_, _)
ExtendOne(x, pool) ==
    IF pool = <<>> THEN <<>>
    ELSE <<Append(x, Head(pool))>> \o ExtendOne(x, Tail(pool))

\* [x + [y] for x in result for y in pool]
RECURSIVE ExtendAll(_, _)
ExtendAll(result, pool) ==
    IF result = <<>> THEN <<>>
    ELSE ExtendOne(Head(result), pool) \o ExtendAll(Tail(result), pool)

\* Mutant of Product: the first pool varies fastest.
RECURSIVE ExtendEach(_, _)
ExtendEach(result, y) ==
    IF result = <<>> THEN <<>>
    ELSE <<Append(Head(result), y)>> \o ExtendEach(Tail(result), y)
RECURSIVE ExtendAllPoolFirst(_, _)
ExtendAllPoolFirst(result, pool) ==
    IF pool = <<>> THEN <<>>
    ELSE ExtendEach(result, Head(pool)) \o ExtendAllPoolFirst(result, Tail(pool))
RECURSIVE ProductFirstFastestFrom(_, _)
ProductFirstFastestFrom(result, pools) ==
    IF pools = <<>> THEN result
    ELSE ProductFirstFastestFrom(ExtendAllPoolFirst(result, Head(pools)), Tail(pools))
ProductFirstFastest(pools) == ProductFirstFastestFrom(<<<<>>>>, pools)

\* itertools.product(*pools) as a list: result = [[]], then one extension per
\* pool, in order.
RECURSIVE ProductFrom(_, _)
ProductFrom(result, pools) ==
    IF pools = <<>> THEN result
    ELSE ProductFrom(ExtendAll(result, Head(pools)), Tail(pools))
Product(pools) == ProductFrom(<<<<>>>>, pools)

\* get_color_combinations: (combos, materials), and the warnings reported.
get_color_combinations(batch_settings) ==
    LET f == FilterLoop(batch_settings.materials, <<>>, <<>>, <<>>)
    IN [combos |-> Product(f.color_lists), materials |-> f.materials,
        warnings |-> f.warnings]

\* ------------------------------------------------------------ file path

DigitChars == <<"0", "1", "2", "3", "4", "5", "6", "7", "8", "9">>
RECURSIVE Decimal(_)
Decimal(n) ==
    IF n < 10 THEN <<DigitChars[n + 1]>>
    ELSE Append(Decimal(n \div 10), DigitChars[(n % 10) + 1])
RECURSIVE ZeroPad(_, _)
ZeroPad(digits, width) ==
    IF Len(digits) >= width THEN digits ELSE ZeroPad(<<"0">> \o digits, width)
\* The width in the format specification {count:03d}.
FormatWidth == 3
\* Mutant of Suffix: the index is not padded.
SuffixUnpadded(n) == <<"_">> \o Decimal(n)
\* f"_{count:03d}"
Suffix(n) == <<"_">> \o ZeroPad(Decimal(n), FormatWidth)
Extension == <<".", "p", "n", "g">>
\* f"{base_path}{suffix}.png"
OutputPath(base, n) == base \o Suffix(n) \o Extension

\* ------------------------------------------------------- render operator

\* Mutant of FirstRGB: the last RGB node is taken.
RECURSIVE LastRGBFrom(_, _)
LastRGBFrom(nodes, k) ==
    IF nodes[k] = "RGB" THEN k ELSE LastRGBFrom(nodes, k - 1)
LastRGB(mat_name) ==
    <<mat_name, LastRGBFrom(data_materials[mat_name].nodes,
                            Len(data_materials[mat_name].nodes))>>

\* next(node for node in mat.node_tree.nodes if node.type == 'RGB')
RECURSIVE FirstRGBFrom(_, _)
FirstRGBFrom(nodes, k) ==
    IF nodes[k] = "RGB" THEN k ELSE FirstRGBFrom(nodes, k + 1)
FirstRGB(mat_name) == <<mat_name, FirstRGBFrom(data_materials[mat_name].nodes, 1)>>

\* The loop over zip(materials, combo): each material's first RGB node gets
\* its colour, in order.
RECURSIVE ApplyCombo(_, _, _)
ApplyCombo(values, mats, combo) ==
    IF mats = <<>> \/ combo = <<>> THEN values
    ELSE ApplyCombo([values EXCEPT ![FirstRGB(Head(mats))] = Head(combo)],
                    Tail(mats), Tail(combo))

\* The nodes that loop assigns.
WrittenNodes(mats, combo) ==
    {FirstRGB(mats[p]) : p \in 1..(IF Len(mats) < Len(combo) THEN Len(mats) ELSE Len(combo))}

\* Mutant of Invoke: the first combination is applied to the nodes before the
\* prompt is shown.
InvokeApplyingFirst ==
    /\ pc = "idle"
    /\ LET r == get_color_combinations(settings)
       IN /\ prompt_count' = Len(r.combos)
          /\ reports' = reports \o r.warnings
          /\ default_value' = IF r.combos = <<>> THEN default_value
                              ELSE ApplyCombo(default_value, r.materials, r.combos[1])
    /\ pc' = "confirm"
    /\ UNCHANGED <<settings, color_combinations, materials, count, base_path,
                   filepath, render_calls, node_writes, filepath_writes>>

\* invoke: the confirmation prompt with the number of combinations.
Invoke ==
    /\ pc = "idle"
    /\ LET r == get_color_combinations(settings)
       IN /\ prompt_count' = Len(r.combos)
          /\ reports' = reports \o r.warnings
    /\ pc' = "confirm"
    /\ UNCHANGED <<settings, color_combinations, materials, count, base_path,
                   filepath, default_value, render_calls, node_writes,
                   filepath_writes>>

\* The operator declines the prompt: execute never runs.
Decline ==
    /\ pc = "confirm"
    /\ pc' = "cancelled"
    /\ UNCHANGED <<settings, prompt_count, color_combinations, materials, count,
                   base_path, filepath, default_value, render_calls,
                   node_writes, filepath_writes, reports>>

\* The operator accepts: execute starts (count = 0 and get_color_combinations).
ExecuteStart ==
    /\ pc = "confirm"
    /\ LET r == get_color_combinations(settings)
       IN /\ color_combinations' = r.combos
          /\ materials' = r.materials
          /\ reports' = reports \o r.warnings
    /\ count' = 0
    /\ pc' = "loop"
    /\ UNCHANGED <<settings, prompt_count, base_path, filepath, default_value,
                   render_calls, node_writes, filepath_writes>>

\* One pass of the loop up to the render call: the node assignments, then
\* base_path, suffix and the assignment of the numbered path.
LoopBody ==
    /\ pc = "loop"
    /\ count < Len(color_combinations)
    /\ LET combo == color_combinations[count + 1]
       IN /\ default_value' = ApplyCombo(default_value, materials, combo)
          /\ node_writes' = node_writes \cup WrittenNodes(materials, combo)
    /\ base_path' = filepath
    /\ filepath' = OutputPath(filepath, count)
    /\ filepath_writes' = filepath_writes + 1
    /\ pc' = "render"
    /\ UNCHANGED <<settings, prompt_count, color_combinations, materials, count,
                   render_calls, reports>>

\* What bpy.ops.render.render(write_still=True) sees when it is called.
RenderCall(raised) ==
    [index |-> count, filepath |-> filepath, default_value |-> default_value,
     raised |-> raised]

\* The render call returns: the path is reset and count incremented.
RenderReturns ==
    /\ pc = "render"
    /\ render_calls' = Append(render_calls, RenderCall(FALSE))
    /\ filepath' = base_path
    /\ filepath_writes' = filepath_writes + 1
    /\ count' = count + 1
    /\ pc' = "loop"
    /\ UNCHANGED <<settings, prompt_count, color_combinations, materials,
                   base_path, default_value, node_writes, reports>>

\* Mutant of RenderRaises: the exception is caught and the loop goes on.
RenderRaisesSwallowed ==
    /\ pc = "render"
    /\ render_calls' = Append(render_calls,
                              [index |-> count, filepath |-> filepath,
                               default_value |-> default_value, raised |-> TRUE])
    /\ filepath' = base_path
    /\ filepath_writes' = filepath_writes + 1
    /\ count' = count + 1
    /\ pc' = "loop"
    /\ UNCHANGED <<settings, prompt_count, color_combinations, materials,
                   base_path, default_value, node_writes, reports>>

\* The render call raises: nothing in execute catches it, so the exception
\* leaves execute from line 160.
RenderRaises ==
    /\ pc = "render"
    /\ render_calls' = Append(render_calls, RenderCall(TRUE))
    /\ pc' = "raised"
    /\ UNCHANGED <<settings, prompt_count, color_combinations, materials, count,
                   base_path, filepath, default_value, node_writes,
                   filepath_writes, reports>>

\* The loop is exhausted: return {'FINISHED'}.
ExecuteFinish ==
    /\ pc = "loop"
    /\ count >= Len(color_combinations)
    /\ pc' = "finished"
    /\ UNCHANGED <<settings, prompt_count, color_combinations, materials, count,
                   base_path, filepath, default_value, render_calls,
                   node_writes, filepath_writes, reports>>

Init ==
    /\ settings = [materials |-> <<>>, mat_index |-> 0]
    /\ pc = "idle"
    /\ prompt_count = 0
    /\ color_combinations = <<>>
    /\ materials = <<>>
    /\ count = 0
    /\ base_path = <<>>
    /\ filepath = InitialPath
    /\ default_value = [n \in AllNodes |-> NodeInitial]
    /\ render_calls = <<>>
    /\ node_writes = {}
    /\ filepath_writes = 0
    /\ reports = <<>>

\* The add/remove operators and the panel's widgets.
EditNext ==
    \/ AddMaterial
    \/ RemoveMaterial
    \/ AddColor
    \/ RemoveColor
    \/ SetMatName
    \/ SetColor
    \/ SelectMaterial
    \/ SelectColor

\* The render operator, from the button to the end of execute.
RenderNext ==
    \/ Invoke
    \/ Decline
    \/ ExecuteStart
    \/ LoopBody
    \/ RenderReturns
    \/ RenderRaises
    \/ ExecuteFinish

Next == EditNext \/ RenderNext

Spec == Init /\ [][Next]_vars

\* The operators alone: every sequence of the add/remove operators and of the
\* panel's widgets.
EditSpec == Init /\ [][EditNext]_vars

\* The render operator on every BatchSettings the operators build.  The two
\* selection widgets are left out: they change only mat_index and
\* color_index, which the render operator never reads, and every list of
\* bindings and colours is built without them (each binding is filled while it
\* is the last one).
BuildNext ==
    \/ AddMaterial
    \/ RemoveMaterial
    \/ AddColor
    \/ RemoveColor
    \/ SetMatName
    \/ SetColor

RenderSpec == Init /\ [][BuildNext \/ RenderNext]_vars

\* ------------------------------------------- the generator on any settings

\* The longest colour list of the settings the generator is tried on.
MaxLen == 2
GenNames == {"A", "B", StaleName}
ColorLists == UNION {[1..n -> Colors] : n \in 0..MaxLen}
GenItems == [mat_name : GenNames, colors : ColorLists, color_index : {0}]
GenSettings ==
    [materials : UNION {[1..n -> GenItems] : n \in 0..MaxMats}, mat_index : {0}]

\* Any settings object, also one with an empty colour list (which the
\* operators never build, and a script can).
GenInit ==
    /\ settings \in GenSettings
    /\ pc = "idle"
    /\ prompt_count = 0
    /\ color_combinations = <<>>
    /\ materials = <<>>
    /\ count = 0
    /\ base_path = <<>>
    /\ filepath = InitialPath
    /\ default_value = [n \in AllNodes |-> NodeInitial]
    /\ render_calls = <<>>
    /\ node_writes = {}
    /\ filepath_writes = 0
    /\ reports = <<>>

GenNext ==
    \/ Invoke
    \/ ExecuteStart

GenSpec == GenInit /\ [][GenNext]_vars

\* ------------------------------------------------------------ properties

\* execute has called get_color_combinations.
Executing == pc \in {"loop", "render", "finished", "raised"}

\* A binding is eligible: its name is registered, the material uses nodes and
\* one of its nodes is an RGB node.
IsEligible(mat_item) ==
    /\ mat_item.mat_name \in DOMAIN data_materials
    /\ data_materials[mat_item.mat_name].use_nodes
    /\ \E k \in DOMAIN data_materials[mat_item.mat_name].nodes :
          data_materials[mat_item.mat_name].nodes[k] = "RGB"

\* The eligible bindings of the settings, in the settings' order.
EligibleItems == SelectSeq(settings.materials, IsEligible)
EligibleLists == [p \in 1..Len(EligibleItems) |-> EligibleItems[p].colors]
EligibleNames == [p \in 1..Len(EligibleItems) |-> EligibleItems[p].mat_name]

RECURSIVE ProdLens(_)
ProdLens(lists) ==
    IF lists = <<>> THEN 1 ELSE Len(Head(lists)) * ProdLens(Tail(lists))

\* Digit p of i in the mixed radix of the lists' lengths, the last list the
\* least significant.
MixedRadixDigit(i, p, lists) ==
    (i \div ProdLens(SubSeq(lists, p + 1, Len(lists)))) % Len(lists[p])

\* path ends with "_" + at least three digits + ".png".
IsDigit(c) == \E d \in 1..10 : DigitChars[d] = c
HasNumberedSuffix(path) ==
    \E n \in 8..Len(path) :
        /\ SubSeq(path, Len(path) - 3, Len(path)) = Extension
        /\ path[Len(path) - n + 1] = "_"
        /\ \A k \in (Len(path) - n + 2)..(Len(path) - 4) : IsDigit(path[k])

\* C1: when execute has ended, by return or by a render call that raised, the
\* output path is the base_path of the last combination started and carries
\* no "_NNN.png" suffix (stated for batches over at least one material).
C1_PathRestoredOnExit ==
    (pc \in {"finished", "raised"} /\ materials # <<>>) =>
        /\ render_calls # <<>> => filepath = base_path
        /\ ~HasNumberedSuffix(filepath)

\* C2: with no eligible binding the prompt reports 0 images, and there is no
\* render call and no write of the output path.
NoEligible == \A i \in 1..Len(settings.materials) : ~IsEligible(settings.materials[i])
C2_NoEligibleNoWork ==
    NoEligible =>
        /\ pc # "idle" => prompt_count = 0
        /\ render_calls = <<>>
        /\ filepath_writes = 0

\* C3: after a batch of K combinations whose render calls all returned, the
\* output path is its pre-batch value, and there were exactly K render calls,
\* call i (from 0) seeing the pre-batch path + "_" + i on three digits + ".png".
ThreeDigits(i) ==
    <<DigitChars[((i \div 100) % 10) + 1], DigitChars[((i \div 10) % 10) + 1],
      DigitChars[(i % 10) + 1]>>
C3_SuccessfulBatch ==
    pc = "finished" =>
        /\ filepath = InitialPath
        /\ Len(render_calls) = Len(color_combinations)
        /\ \A i \in 0..(Len(render_calls) - 1) :
              /\ render_calls[i + 1].index = i
              /\ render_calls[i + 1].filepath =
                    InitialPath \o <<"_">> \o ThreeDigits(i) \o <<".", "p", "n", "g">>
C3_Witness ==
    /\ pc = "finished"
    /\ Len(render_calls) = 4

\* C4: with N >= 1 eligible materials the combinations number the product of
\* the list lengths (none when a list is empty), each holds one colour per
\* eligible material, combination i is the mixed-radix decoding of i with the
\* last material varying fastest, and the count shown by the prompt is the
\* count of the second generation.
C4_Product ==
    (Executing /\ Len(EligibleLists) >= 1) =>
        /\ Len(color_combinations) = ProdLens(EligibleLists)
        /\ prompt_count = Len(color_combinations)
        /\ \A i \in 0..(Len(color_combinations) - 1) :
              /\ Len(color_combinations[i + 1]) = Len(EligibleLists)
              /\ \A p \in 1..Len(EligibleLists) :
                    color_combinations[i + 1][p] =
                        EligibleLists[p][MixedRadixDigit(i, p, EligibleLists) + 1]
C4_Witness ==
    /\ Executing
    /\ Len(EligibleLists) = 2
    /\ Len(color_combinations) = 4
    /\ Cardinality({color_combinations[i] : i \in 1..4}) = 4
\* The empty-list case of C4 happens.
C4_WitnessEmpty ==
    /\ Executing
    /\ Len(EligibleLists) = 2
    /\ EligibleLists[1] = <<>>
    /\ Len(EligibleLists[2]) = 2

\* The state part of C5: the filter keeps exactly the eligible bindings, in
\* the settings' order, with their colour lists in that order (the first
\* combination is the first colour of each, and position p ranges over the
\* colours of eligible list p).  The step part: generating leaves the
\* settings as they were.
C5_FilterState ==
    Executing =>
        /\ materials = EligibleNames
        /\ (color_combinations # <<>> /\ Len(EligibleLists) >= 1) =>
              /\ color_combinations[1] = [p \in 1..Len(EligibleLists) |-> EligibleLists[p][1]]
              /\ \A p \in 1..Len(EligibleLists) :
                    {color_combinations[i][p] : i \in 1..Len(color_combinations)} =
                        {EligibleLists[p][k] : k \in 1..Len(EligibleLists[p])}
C5_FilterStep ==
    ((pc = "idle" /\ pc' = "confirm") \/ (pc = "confirm" /\ pc' = "loop")) =>
        settings' = settings
\* C5: the filter's result is the eligible bindings in order, in every state,
\* and no step that runs the filter changes the settings.
C5_Filter == []C5_FilterState /\ [][C5_FilterStep]_vars
\* An excluded binding before an included one.
C5_Witness ==
    /\ Executing
    /\ Len(settings.materials) = 2
    /\ ~IsEligible(settings.materials[1])
    /\ materials = <<"B">>

\* C6: every binding has at least one colour, and remove_color cannot run
\* while the selected binding has exactly one.
C6_ColorsNonEmpty ==
    /\ \A i \in 1..Len(settings.materials) : Len(settings.materials[i].colors) >= 1
    /\ (settings.materials # <<>> /\ Len(Selected.colors) = 1) => ~ENABLED RemoveColor
C6_Witness ==
    /\ pc = "idle"
    /\ Len(settings.materials) = 2
    /\ settings.mat_index = 0
    /\ Len(settings.materials[1].colors) = 1
    /\ Len(settings.materials[2].colors) = 2

\* C7: mat_index is an index of materials, or 0 when materials is empty, and
\* each color_index is an index of its colors, or 0 when colors is empty.
InBounds(index, seq) == IF seq = <<>> THEN index = 0 ELSE index < Len(seq)
C7_IndicesInBounds ==
    /\ InBounds(settings.mat_index, settings.materials)
    /\ \A i \in 1..Len(settings.materials) :
          InBounds(settings.materials[i].color_index, settings.materials[i].colors)
\* A binding whose second colour is selected, alone in the settings.
C7_Witness ==
    /\ Len(settings.materials) = 1
    /\ settings.mat_index = 0
    /\ Len(settings.materials[1].colors) = 2
    /\ settings.materials[1].color_index = 1
    /\ settings.materials[1].colors = <<"red", "white">>

\* C8: until the prompt is accepted nothing is mutated: no node output is
\* assigned, the output path is not written, and no render call is made.
C8_NoMutationBeforeConfirm ==
    pc \in {"confirm", "cancelled"} =>
        /\ node_writes = {}
        /\ default_value = [n \in AllNodes |-> NodeInitial]
        /\ filepath_writes = 0
        /\ filepath = InitialPath
        /\ render_calls = <<>>
C8_Witness ==
    /\ pc = "cancelled"
    /\ prompt_count = 4

\* C9: a render call that raises ends execute with the failure (not with
\* FINISHED); the calls before it were made once each, in order, and nothing
\* is written or rendered after it.
C9_FailurePropagates ==
    /\ \A k \in 1..Len(render_calls) :
          /\ render_calls[k].index = k - 1
          /\ render_calls[k].raised =>
                /\ k = Len(render_calls)
                /\ pc = "raised"
                /\ count = k - 1
                /\ default_value = render_calls[k].default_value
                /\ filepath = render_calls[k].filepath
                /\ filepath_writes = 2 * (k - 1) + 1
    /\ pc = "raised" => (render_calls # <<>> /\ render_calls[Len(render_calls)].raised)
\* The third of four render calls raised.
C9_Witness ==
    /\ pc = "raised"
    /\ Len(render_calls) = 3
    /\ Len(color_combinations) = 4

\* C10: with pairwise distinct eligible materials, each render call sees, on
\* the first RGB node of the material at position p, the colour at position p
\* of the call's combination; and only first RGB nodes of eligible materials
\* are ever assigned.
LeastRGB(mat_name) ==
    <<mat_name,
      CHOOSE k \in DOMAIN data_materials[mat_name].nodes :
          /\ data_materials[mat_name].nodes[k] = "RGB"
          /\ \A j \in 1..(k - 1) : data_materials[mat_name].nodes[j] # "RGB">>
Distinct(seq) == \A p, q \in 1..Len(seq) : p # q => seq[p] # seq[q]
C10_NodesSetBeforeRender ==
    /\ Distinct(EligibleNames) =>
          \A k \in 1..Len(render_calls) :
              \A p \in 1..Len(EligibleNames) :
                  render_calls[k].default_value[LeastRGB(EligibleNames[p])] =
                      color_combinations[render_calls[k].index + 1][p]
    /\ node_writes \subseteq {LeastRGB(EligibleNames[p]) : p \in 1..Len(EligibleNames)}
\* The second render call of a batch over "A" and "B" with different colours.
C10_Witness ==
    /\ Len(render_calls) = 2
    /\ EligibleNames = <<"A", "B">>
    /\ color_combinations[2] = <<"white", "red">>
    /\ render_calls[2].default_value[<<"A", 2>>] = "white"
    /\ render_calls[2].default_value[<<"B", 1>>] = "red"
====
